---- MODULE Spec2Model ----
(***************************************************************************)
(* Model of send_to/send_to.py: the send_to(cfg) procedure, the date       *)
(* resolution determine_date() and the helpers they use.                   *)
(*                                                                         *)
(* Strings are tuples of one-character strings ("-3" is <<"-","3">>).      *)
(* Paths are tuples of path components (out\sub\a is <<"out","sub","a">>), *)
(* so joining with the '\\' separator is tuple concatenation and           *)
(* os.path.basename is the last component.                                 *)
(* cfg.debug only selects console messages and the closing "Press Enter"   *)
(* pause; it is not part of the state.                                     *)
(***************************************************************************)
EXTENDS Integers, Sequences, FiniteSets, TLC

VARIABLES cfg, files, fs, fs0, pc, err, i, info, subdir_name, new_file,
          file_exists, log

vars == <<cfg, files, fs, fs0, pc, err, i, info, subdir_name, new_file,
          file_exists, log>>

----------------------------------------------------------------------------
(* Bounds *)

MaxFiles == 2

----------------------------------------------------------------------------
(* Strings and integers *)

Digits == {"0", "1", "2", "3", "4", "5", "6", "7", "8", "9"}

DigitVal(c) ==
    CASE c = "0" -> 0 [] c = "1" -> 1 [] c = "2" -> 2 [] c = "3" -> 3
      [] c = "4" -> 4 [] c = "5" -> 5 [] c = "6" -> 6 [] c = "7" -> 7
      [] c = "8" -> 8 [] c = "9" -> 9

DigitChar(n) ==
    CASE n = 0 -> "0" [] n = 1 -> "1" [] n = 2 -> "2" [] n = 3 -> "3"
      [] n = 4 -> "4" [] n = 5 -> "5" [] n = 6 -> "6" [] n = 7 -> "7"
      [] n = 8 -> "8" [] n = 9 -> "9"

AllDigits(s) == \A k \in 1..Len(s) : s[k] \in Digits

RECURSIVE DigitsVal(_)
DigitsVal(s) ==
    IF s = <<>> THEN 0
    ELSE 10 * DigitsVal(SubSeq(s, 1, Len(s) - 1)) + DigitVal(s[Len(s)])

RECURSIVE Strip(_)
(* str.strip() as applied by int() to its argument *)
Strip(s) ==
    IF s = <<>> THEN s
    ELSE IF s[1] = " " THEN Strip(Tail(s))
    ELSE IF s[Len(s)] = " " THEN Strip(SubSeq(s, 1, Len(s) - 1))
    ELSE s

(* int(s): optional surrounding blanks, an optional sign, one or more      *)
(* digits; anything else raises ValueError (ok = FALSE).                   *)
PyInt(s) ==
    LET t == Strip(s)
        signed == t # <<>> /\ t[1] \in {"+", "-"}
        d == IF signed THEN Tail(t) ELSE t
    IN  IF d # <<>> /\ AllDigits(d)
        THEN [ok |-> TRUE,
              val |-> IF signed /\ t[1] = "-" THEN 0 - DigitsVal(d)
                      ELSE DigitsVal(d)]
        ELSE [ok |-> FALSE, val |-> 0]

RECURSIVE SplitAt(_, _)
(* str.split(sep) *)
SplitAt(s, sep) ==
    IF \E k \in 1..Len(s) : s[k] = sep
    THEN LET k == CHOOSE k \in 1..Len(s) :
                      s[k] = sep /\ \A j \in 1..(k - 1) : s[j] # sep
         IN  <<SubSeq(s, 1, k - 1)>> \o SplitAt(SubSeq(s, k + 1, Len(s)), sep)
    ELSE <<s>>

version_str == <<"0", ".", "4", ".", "0">>

semver_str_to_int(version, part) ==
    LET ver == IF part = "MAJOR" THEN SplitAt(version, ".")[1]
               ELSE IF part = "MINOR" THEN SplitAt(version, ".")[2]
               ELSE SplitAt(version, ".")[3]
    IN  PyInt(ver).val

----------------------------------------------------------------------------
(* Dates *)

default_date_fmt == <<"%Y", "-", "%m", "-", "%d">>

(* a format the caller may set instead: cfg.date_fmt = "-%d" *)
day_only_fmt == <<"-", "%d">>

IsLeap(y) == (y % 4 = 0 /\ y % 100 # 0) \/ y % 400 = 0

DaysInMonth(y, m) ==
    IF m = 2 THEN (IF IsLeap(y) THEN 29 ELSE 28)
    ELSE IF m \in {4, 6, 9, 11} THEN 30 ELSE 31

(* the regular expressions _strptime uses for the directives *)
MatchesY(p) == Len(p) = 4 /\ AllDigits(p)

MatchesM(p) ==
    \/ Len(p) = 2 /\ p[1] = "1" /\ p[2] \in {"0", "1", "2"}
    \/ Len(p) = 2 /\ p[1] = "0" /\ p[2] \in Digits \ {"0"}
    \/ Len(p) = 1 /\ p[1] \in Digits \ {"0"}

MatchesD(p) ==
    \/ Len(p) = 2 /\ p[1] = "3" /\ p[2] \in {"0", "1"}
    \/ Len(p) = 2 /\ p[1] \in {"1", "2"} /\ p[2] \in Digits
    \/ Len(p) = 2 /\ p[1] \in {"0", " "} /\ p[2] \in Digits \ {"0"}
    \/ Len(p) = 1 /\ p[1] \in Digits \ {"0"}

(* datetime.strptime(date, date_fmt) for the formats %Y-%m-%d and -%d:    *)
(* TRUE when it returns, FALSE when it raises ValueError.  A format        *)
(* without %Y and %m parses into January 1900, where every day matched by  *)
(* %d exists.                                                              *)
strptime_ok(date, date_fmt) ==
    LET parts == SplitAt(date, "-")
    IN  IF date_fmt = default_date_fmt
        THEN /\ Len(parts) = 3
             /\ MatchesY(parts[1]) /\ MatchesM(parts[2]) /\ MatchesD(parts[3])
             /\ LET y == DigitsVal(parts[1])
                    m == DigitsVal(parts[2])
                    d == DigitsVal(Strip(parts[3]))
                IN  y >= 1 /\ d <= DaysInMonth(y, m)
        ELSE /\ date_fmt = day_only_fmt
             /\ date # <<>> /\ date[1] = "-"
             /\ MatchesD(Tail(date))

(* the day the run happens on: datetime.today() / datetime.now() *)
Today == [y |-> 2023, m |-> 3, d |-> 3]

PrevDay(t) ==
    IF t.d > 1 THEN [t EXCEPT !.d = t.d - 1]
    ELSE IF t.m > 1
         THEN [y |-> t.y, m |-> t.m - 1, d |-> DaysInMonth(t.y, t.m - 1)]
         ELSE [y |-> t.y - 1, m |-> 12, d |-> 31]

RECURSIVE MinusDays(_, _)
(* datetime - timedelta(td) *)
MinusDays(t, td) == IF td = 0 THEN t ELSE MinusDays(PrevDay(t), td - 1)

Pad(n, width) ==
    [k \in 1..width |->
        LET p == width - k
            pow == IF p = 0 THEN 1 ELSE IF p = 1 THEN 10
                   ELSE IF p = 2 THEN 100 ELSE 1000
        IN  DigitChar((n \div pow) % 10)]

(* datetime.strftime(date_fmt) for the formats %Y-%m-%d and -%d *)
strftime(t, date_fmt) ==
    IF date_fmt = default_date_fmt
    THEN Pad(t.y, 4) \o <<"-">> \o Pad(t.m, 2) \o <<"-">> \o Pad(t.d, 2)
    ELSE <<"-">> \o Pad(t.d, 2)

IsDayShift_m(n) == n < 0 /\ n > -7

(* line 373: the responses accepted as a day shift *)
IsDayShift(n) == n < 0 /\ n > -8

(* determine_date(ask_for_date, date_fmt) with the prompt response given:  *)
(* err is "none" on return, otherwise the exception that leaves it.        *)
determine_date(ask_for_date, date_fmt, response) ==
    IF ask_for_date
    THEN IF strptime_ok(response, date_fmt)
         THEN [err |-> "none", date |-> response]
         ELSE IF response = <<>>
         THEN [err |-> "none", date |-> strftime(Today, date_fmt)]
         ELSE IF ~PyInt(response).ok
         THEN [err |-> "ValueError", date |-> response]
         ELSE IF IsDayShift(PyInt(response).val)
         THEN LET td == 0 - PyInt(response).val
              IN  [err |-> "none",
                   date |-> strftime(MinusDays(Today, td), date_fmt)]
         ELSE [err |-> "InvalidDateInput", date |-> response]
    ELSE [err |-> "none", date |-> strftime(Today, date_fmt)]

----------------------------------------------------------------------------
(* Paths and the filesystem *)

InA == <<"in", "a">>
OutA == <<"out", "a">>
OutB == <<"out", "b">>
SubDir == <<"out", "sub">>
SubA == <<"out", "sub", "a">>
SubB == <<"out", "sub", "b">>

AllPaths == {<<"in">>, <<"out">>, SubDir, InA, OutA, OutB, SubA, SubB}

(* the files a run may be given: sys.argv[1:] *)
SourceFiles == {InA, OutA}

(* what the user's functions may return *)
SubdirOutputs == {<<>>, <<"sub">>}
SkipOutputs == BOOLEAN
RenameOutputs == {<<>>, <<"b">>}

(* what the user may type at the prompts *)
DateResponses ==
    { <<>>, <<"-", "1">>, <<"-", "7">>, <<"-", "8">>, <<"-", "9">>, <<"0">>,
      <<"5">>, <<"x">>, <<" ">>,
      <<"2", "0", "2", "3", "-", "3", "-", "1">> }
DescResponses == {<<"d">>}

(* the responses tried when date resolution is examined on its own *)
AllDateResponses ==
    DateResponses \cup
    { <<"-", "2">>, <<"-", "3">>, <<"-", "4">>, <<"-", "5">>, <<"-", "6">>,
      <<"-", "1", "0">>, <<"-", "0">>, <<"+", "3">>, <<"1">>, <<"7">>,
      <<" ", "-", "3", " ">>, <<"-", " ", "3">>, <<"-", "0", "3">>,
      <<"-", "3", "1">>, <<"-", "3", "2">>, <<"-", "x">>, <<"-">>,
      <<"2", "0", "2", "3", "-", "0", "3", "-", "0", "1">>,
      <<"2", "0", "2", "3", "-", "0", "2", "-", "3", "0">>,
      <<"2", "0", "2", "4", "-", "0", "2", "-", "2", "9">>,
      <<"2", "0", "2", "3", "-", "1", "3", "-", "0", "1">>,
      <<"2", "0", "2", "3", "-", "3">>,
      <<"2", "0", "2", "3", "-", "3", "-", "1", " ">> }

(* a hook attribute of cfg: never assigned, assigned None, or a function *)
HookStates == {"unset", "none", "fn"}

Hooks(sd, sk, rn, pp) ==
    [subdir |-> sd, skip |-> sk, rename |-> rn, post_process |-> pp]

HookCfgs ==
    { Hooks("fn", "fn", "fn", "fn"),
      Hooks("unset", "none", "none", "none"),
      Hooks("unset", "unset", "unset", "unset"),
      Hooks("none", "none", "none", "none") } \cup
    { [Hooks("fn", "fn", "fn", "fn") EXCEPT ![slot] = st] :
        slot \in {"subdir", "skip", "rename", "post_process"},
        st \in {"unset", "none"} }

basename(path) == <<path[Len(path)]>>

Parent(path) == SubSeq(path, 1, Len(path) - 1)

(* os.path.exists *)
Exists(f, path) == path \in DOMAIN f /\ f[path] # "absent"

IsDir(f, path) == path \in DOMAIN f /\ f[path] = "dir"

IsFile(f, path) == Exists(f, path) /\ ~IsDir(f, path)

(* os.mkdir(path): err is the exception raised, "none" when it returns *)
mkdir(f, path) ==
    IF Exists(f, path) THEN [err |-> "FileExistsError", fs |-> f]
    ELSE IF ~IsDir(f, Parent(path)) THEN [err |-> "FileNotFoundError", fs |-> f]
    ELSE [err |-> "none", fs |-> [f EXCEPT ![path] = "dir"]]

(* shutil.move(src, dst) of a file onto a file path: os.rename on the same *)
(* path returns with nothing changed.                                      *)
shutil_move(f, src, dst) ==
    IF ~IsFile(f, src) THEN [err |-> "FileNotFoundError", fs |-> f]
    ELSE IF src = dst THEN [err |-> "none", fs |-> f]
    ELSE IF ~IsDir(f, Parent(dst)) THEN [err |-> "FileNotFoundError", fs |-> f]
    ELSE [err |-> "none", fs |-> [f EXCEPT ![dst] = f[src], ![src] = "absent"]]

(* shutil.copy(src, dst) of a file onto a file path *)
shutil_copy(f, src, dst) ==
    IF ~IsFile(f, src) THEN [err |-> "FileNotFoundError", fs |-> f]
    ELSE IF src = dst THEN [err |-> "SameFileError", fs |-> f]
    ELSE IF ~IsDir(f, Parent(dst)) THEN [err |-> "FileNotFoundError", fs |-> f]
    ELSE [err |-> "none", fs |-> [f EXCEPT ![dst] = f[src]]]

(* the initial content of a file names the path it was first stored at *)
ContentOf(path) ==
    CASE path = InA -> "content of in.a"
      [] path = OutA -> "content of out.a"
      [] path = SubA -> "content of out.sub.a"

InitFilesystems ==
    { [p \in AllPaths |->
          IF p \in {<<"in">>, <<"out">>} THEN "dir"
          ELSE IF p = InA THEN ContentOf(InA)
          ELSE IF p = OutA THEN (IF outA THEN ContentOf(OutA) ELSE "absent")
          ELSE IF p = SubDir THEN (IF sub \in {"dir", "dir+a"} THEN "dir" ELSE "absent")
          ELSE IF p = SubA THEN (IF sub = "dir+a" THEN ContentOf(SubA) ELSE "absent")
          ELSE "absent"] :
      outA \in BOOLEAN, sub \in {"absent", "dir", "dir+a"} }

(* the initial filesystems, and those where a plain file in dst_path has   *)
(* the name the subdir function returns                                    *)
SubdirFilesystems ==
    InitFilesystems \cup
    { [f EXCEPT ![SubDir] = "content of out.sub"] :
        f \in {g \in InitFilesystems : ~Exists(g, SubDir)} }

RECURSIVE SeqsUpTo(_, _)
SeqsUpTo(S, n) ==
    IF n = 0 THEN {<<>>}
    ELSE LET shorter == SeqsUpTo(S, n - 1)
         IN  shorter \cup {Append(q, x) : q \in shorter, x \in S}

----------------------------------------------------------------------------
(* send_to(cfg) *)

script_maj_ver == semver_str_to_int(version_str, "MAJOR")

Init ==
    /\ cfg \in { [version |-> v, dst_path |-> <<"out">>, operation |-> op,
                  date_fmt |-> default_date_fmt, ask_for_date |-> ad,
                  ask_for_desc |-> ac, overwrite_file |-> ow, dry_run |-> dr,
                  hooks |-> h] :
                 v \in {script_maj_ver, script_maj_ver + 1},
                 op \in {"MOVE", "COPY"}, ad \in BOOLEAN, ac \in BOOLEAN,
                 ow \in BOOLEAN, dr \in BOOLEAN, h \in HookCfgs }
    /\ files \in SeqsUpTo(SourceFiles, MaxFiles)
    /\ fs \in InitFilesystems
    /\ \A k \in 1..Len(files) : IsFile(fs, files[k])
    /\ fs0 = fs
    /\ pc = "start"
    /\ err = "none"
    /\ i = 0
    /\ info = [file_path |-> <<>>, dst_path |-> <<>>, date |-> <<>>, desc |-> <<>>]
    /\ subdir_name = <<>>
    /\ new_file = <<>>
    /\ file_exists = FALSE
    /\ log = <<>>

Raise(e) == pc' = "error" /\ err' = e

VersionMismatch_m(script_ver, cfg_ver) == script_ver > cfg_ver

(* line 410 *)
VersionMismatch(script_ver, cfg_ver) == script_ver # cfg_ver

NextStage_m(stage) ==
    CASE stage = "collect" -> "desc"
      [] stage = "desc" -> "date"
      [] stage = "date" -> "subdir"

(* the order of the statements of lines 419-446: the file list, then the   *)
(* date, then the description, then the subdirectory                       *)
NextStage(stage) ==
    CASE stage = "collect" -> "date"
      [] stage = "date" -> "desc"
      [] stage = "desc" -> "subdir"

(* lines 405-411 *)
CheckVersion ==
    /\ pc = "start"
    /\ IF VersionMismatch(script_maj_ver, cfg.version)
       THEN Raise("IncompatibleCfgVersion")
       ELSE pc' = "collect" /\ err' = err
    /\ UNCHANGED <<cfg, files, fs, fs0, i, info, subdir_name, new_file,
                   file_exists, log>>

NoFiles_m(f) == FALSE

(* line 420 *)
NoFiles(f) == Len(f) = 0

(* lines 419-433: sys.exit raises SystemExit *)
CollectFiles ==
    /\ pc = "collect"
    /\ IF NoFiles(files)
       THEN Raise("SystemExit") /\ info' = info
       ELSE /\ pc' = NextStage("collect") /\ err' = err
            /\ info' = [info EXCEPT !.dst_path = cfg.dst_path]
    /\ UNCHANGED <<cfg, files, fs, fs0, i, subdir_name, new_file,
                   file_exists, log>>

(* line 438, the user typing one of the given responses *)
ResolveDateFrom(responses) ==
    /\ pc = "date"
    /\ \E response \in responses :
          LET r == determine_date(cfg.ask_for_date, cfg.date_fmt, response)
              asked == IF cfg.ask_for_date
                       THEN <<[ev |-> "prompt_date", response |-> response]>>
                       ELSE <<>>
          IN  /\ log' = log \o asked
              /\ IF r.err = "none"
                 THEN /\ info' = [info EXCEPT !.date = r.date]
                      /\ pc' = NextStage("date") /\ err' = err
                 ELSE Raise(r.err) /\ info' = info
    /\ UNCHANGED <<cfg, files, fs, fs0, i, subdir_name, new_file, file_exists>>

ResolveDate == ResolveDateFrom(DateResponses)

ResolveDateAny == ResolveDateFrom(AllDateResponses)

(* lines 443-446 *)
AskDesc ==
    /\ pc = "desc"
    /\ IF cfg.ask_for_desc
       THEN \E response \in DescResponses :
               /\ info' = [info EXCEPT !.desc = response]
               /\ log' = Append(log, [ev |-> "prompt_desc", response |-> response])
       ELSE info' = [info EXCEPT !.desc = <<>>] /\ log' = log
    /\ pc' = NextStage("desc")
    /\ UNCHANGED <<cfg, files, fs, fs0, err, i, subdir_name, new_file,
                   file_exists>>

NextFile_m(k) ==
    /\ i' = IF k = 2 THEN 1 ELSE k
    /\ pc' = IF i' <= Len(files) THEN "skip" ELSE "finish"

(* the loop head of line 472 *)
NextFile(k) ==
    /\ i' = k
    /\ pc' = IF k <= Len(files) THEN "skip" ELSE "finish"

NotDryRun_m(dry_run) == TRUE

(* line 461 and line 511 *)
NotDryRun(dry_run) == dry_run = FALSE

SubdirCall_m(hook, inf, ret) ==
    IF hook = "fn"
    THEN <<[ev |-> "subdir", info |-> inf, ret |-> ret],
           [ev |-> "subdir", info |-> inf, ret |-> ret]>>
    ELSE <<>>

(* line 453: the call of the user's subdir function, when there is one *)
SubdirCall(hook, inf, ret) ==
    IF hook = "fn" THEN <<[ev |-> "subdir", info |-> inf, ret |-> ret]>>
    ELSE <<>>

(* lines 448-470 *)
ResolveSubdir ==
    /\ pc = "subdir"
    /\ \E ret \in SubdirOutputs :
          LET called == cfg.hooks.subdir = "fn"
              name == IF called THEN ret ELSE <<>>
              dst == IF name # <<>> THEN cfg.dst_path \o name ELSE cfg.dst_path
              made == mkdir(fs, dst)
              doMkdir == name # <<>> /\ NotDryRun(cfg.dry_run)
              call == SubdirCall(cfg.hooks.subdir, info, ret)
          IN  IF cfg.hooks.subdir = "none"
              THEN /\ Raise("TypeError")
                   /\ UNCHANGED <<fs, i, info, subdir_name, log>>
              ELSE /\ subdir_name' = name
                   /\ info' = [info EXCEPT !.dst_path = dst]
                   /\ IF doMkdir /\ made.err \notin {"none", "FileExistsError"}
                      THEN /\ Raise(made.err)
                           /\ log' = log \o call
                           /\ UNCHANGED <<fs, i>>
                      ELSE /\ fs' = IF doMkdir THEN made.fs ELSE fs
                           /\ log' = log \o call \o
                                (IF doMkdir /\ made.err = "none"
                                 THEN <<[ev |-> "mkdir", path |-> dst]>>
                                 ELSE <<>>)
                           /\ err' = err
                           /\ NextFile(1)
    /\ UNCHANGED <<cfg, files, fs0, new_file, file_exists>>

Skipped_m(skip) == FALSE

(* line 482 *)
Skipped(skip) == skip

SetFilePath_m(inf, file) == inf

(* line 477 *)
SetFilePath(inf, file) == [inf EXCEPT !.file_path = file]

(* lines 472-484 *)
CallSkip ==
    /\ pc = "skip"
    /\ info' = SetFilePath(info, files[i])
    /\ \E ret \in SkipOutputs :
          LET called == cfg.hooks.skip = "fn"
              skip == IF called THEN ret ELSE FALSE
              call == IF called
                      THEN <<[ev |-> "skip", i |-> i, info |-> info', ret |-> ret]>>
                      ELSE <<>>
          IN  IF cfg.hooks.skip = "unset"
              THEN Raise("AttributeError") /\ UNCHANGED <<i, log>>
              ELSE /\ err' = err
                   /\ IF Skipped(skip)
                      THEN /\ log' = log \o call \o
                                <<[ev |-> "report", i |-> i, outcome |-> "skipped"]>>
                           /\ NextFile(i + 1)
                      ELSE /\ log' = log \o call
                           /\ pc' = "rename" /\ i' = i
    /\ UNCHANGED <<cfg, files, fs, fs0, subdir_name, new_file, file_exists>>

DestName_m(ret, file) == IF ret = <<>> THEN file ELSE ret

(* lines 495-497 *)
DestName(ret, file) == IF ret = <<>> THEN basename(file) ELSE ret

(* lines 486-502 *)
CallRename ==
    /\ pc = "rename"
    /\ \E ret \in RenameOutputs :
          LET called == cfg.hooks.rename = "fn"
              new_file_name == DestName(IF called THEN ret ELSE <<>>, files[i])
              call == IF called
                      THEN <<[ev |-> "rename", i |-> i, info |-> info, ret |-> ret]>>
                      ELSE <<>>
          IN  IF cfg.hooks.rename = "unset"
              THEN Raise("AttributeError") /\ UNCHANGED <<new_file, log>>
              ELSE /\ new_file' = info.dst_path \o new_file_name
                   /\ log' = log \o call
                   /\ pc' = "place" /\ err' = err
    /\ UNCHANGED <<cfg, files, fs, fs0, i, info, subdir_name, file_exists>>

ConflictSkips_m(exists, overwrite_file) == exists /\ overwrite_file

(* line 505 *)
ConflictSkips(exists, overwrite_file) == exists /\ overwrite_file = FALSE

(* lines 504-516 *)
Place ==
    /\ pc = "place"
    /\ file_exists' = Exists(fs, new_file)
    /\ LET done == IF cfg.operation = "MOVE"
                   THEN shutil_move(fs, files[i], new_file)
                   ELSE shutil_copy(fs, files[i], new_file)
           outcome == IF file_exists' THEN "overwrite" ELSE "place"
           report == [ev |-> "report", i |-> i, outcome |-> outcome]
       IN  IF ConflictSkips(file_exists', cfg.overwrite_file)
           THEN /\ log' = Append(log, [ev |-> "report", i |-> i,
                                       outcome |-> "conflict_skip"])
                /\ pc' = "post"
                /\ UNCHANGED <<fs, err>>
           ELSE IF NotDryRun(cfg.dry_run)
           THEN IF done.err = "none"
                THEN /\ fs' = done.fs
                     /\ log' = log \o <<report,
                                  [ev |-> "op", i |-> i, op |-> cfg.operation,
                                   src |-> files[i], dst |-> new_file]>>
                     /\ pc' = "post" /\ err' = err
                ELSE /\ Raise(done.err)
                     /\ log' = Append(log, report)
                     /\ fs' = fs
           ELSE /\ log' = Append(log, report)
                /\ pc' = "post"
                /\ UNCHANGED <<fs, err>>
    /\ UNCHANGED <<cfg, files, fs0, i, info, subdir_name, new_file>>

(* lines 518-525 *)
PostProcess ==
    /\ pc = "post"
    /\ IF cfg.hooks.post_process = "unset"
       THEN Raise("AttributeError") /\ UNCHANGED <<i, log>>
       ELSE /\ log' = IF cfg.hooks.post_process = "fn"
                      THEN Append(log, [ev |-> "post_process", i |-> i,
                                        arg |-> new_file])
                      ELSE log
            /\ err' = err
            /\ NextFile(i + 1)
    /\ UNCHANGED <<cfg, files, fs, fs0, info, subdir_name, new_file,
                   file_exists>>

(* line 527 *)
Finish ==
    /\ pc = "finish"
    /\ pc' = "done"
    /\ UNCHANGED <<cfg, files, fs, fs0, err, i, info, subdir_name, new_file,
                   file_exists, log>>

Next ==
    \/ CheckVersion
    \/ CollectFiles
    \/ ResolveDate
    \/ AskDesc
    \/ ResolveSubdir
    \/ CallSkip
    \/ CallRename
    \/ Place
    \/ PostProcess
    \/ Finish

Spec == Init /\ [][Next]_vars

(* The subdirectory step examined on its own: every hook set, no prompts,  *)
(* and a destination directory that may hold a file named like the         *)
(* subdirectory.                                                           *)
InitSubdir ==
    /\ cfg \in { [version |-> script_maj_ver, dst_path |-> <<"out">>,
                  operation |-> op, date_fmt |-> default_date_fmt,
                  ask_for_date |-> FALSE, ask_for_desc |-> FALSE,
                  overwrite_file |-> ow, dry_run |-> dr,
                  hooks |-> Hooks("fn", "fn", "fn", "fn")] :
                 op \in {"MOVE", "COPY"}, ow \in BOOLEAN, dr \in BOOLEAN }
    /\ files \in SeqsUpTo(SourceFiles, MaxFiles)
    /\ fs \in SubdirFilesystems
    /\ \A k \in 1..Len(files) : IsFile(fs, files[k])
    /\ fs0 = fs
    /\ pc = "start"
    /\ err = "none"
    /\ i = 0
    /\ info = [file_path |-> <<>>, dst_path |-> <<>>, date |-> <<>>, desc |-> <<>>]
    /\ subdir_name = <<>>
    /\ new_file = <<>>
    /\ file_exists = FALSE
    /\ log = <<>>

SpecSubdir == InitSubdir /\ [][Next]_vars

(* Date resolution examined on its own: one file to copy, every hook set,  *)
(* both date formats and the larger set of prompt responses.               *)
InitDate ==
    /\ cfg \in { [version |-> script_maj_ver, dst_path |-> <<"out">>,
                  operation |-> "COPY", date_fmt |-> fmt, ask_for_date |-> ad,
                  ask_for_desc |-> ac, overwrite_file |-> FALSE,
                  dry_run |-> FALSE, hooks |-> Hooks("fn", "fn", "fn", "fn")] :
                 fmt \in {default_date_fmt, day_only_fmt},
                 ad \in BOOLEAN, ac \in BOOLEAN }
    /\ files = <<InA>>
    /\ fs \in InitFilesystems
    /\ fs0 = fs
    /\ pc = "start"
    /\ err = "none"
    /\ i = 0
    /\ info = [file_path |-> <<>>, dst_path |-> <<>>, date |-> <<>>, desc |-> <<>>]
    /\ subdir_name = <<>>
    /\ new_file = <<>>
    /\ file_exists = FALSE
    /\ log = <<>>

NextDate ==
    \/ CheckVersion
    \/ CollectFiles
    \/ ResolveDateAny
    \/ AskDesc
    \/ ResolveSubdir
    \/ CallSkip
    \/ CallRename
    \/ Place
    \/ PostProcess
    \/ Finish

SpecDate == InitDate /\ [][NextDate]_vars

----------------------------------------------------------------------------
(* Properties *)

(* the positions of the log entries of kind ev made for the k-th file *)
EventsOf(ev, k) == {n \in 1..Len(log) : log[n].ev = ev /\ log[n].i = k}

Reported(k, outcome) ==
    \E n \in EventsOf("report", k) : log[n].outcome = outcome

(* C1: with overwrite_file false, a file whose destination path already    *)
(* holds a file when it is processed is not operated on: the step leaves   *)
(* the whole filesystem, so the source and the file at the destination,    *)
(* as it was, under MOVE and under COPY.                                   *)
C1_ConflictSkipChangesNothing ==
    [][(pc = "place" /\ Exists(fs, new_file) /\ cfg.overwrite_file = FALSE)
         => (/\ fs'[files[i]] = fs[files[i]]
             /\ fs'[new_file] = fs[new_file]
             /\ fs' = fs
             /\ pc' = "post")]_vars

C1_Witness ==
    /\ pc = "post" /\ file_exists /\ cfg.overwrite_file = FALSE
    /\ cfg.dry_run = FALSE /\ cfg.operation = "MOVE"
    /\ new_file # files[i]
    /\ IsFile(fs, files[i]) /\ fs[new_file] # fs[files[i]]

(* C2: post_process is never called for a file that was skipped because    *)
(* its destination already exists and overwrite_file is false.             *)
C2_NoPostProcessAfterConflictSkip ==
    \A n \in 1..Len(log) :
        log[n].ev = "post_process" => ~Reported(log[n].i, "conflict_skip")

(* C3: with overwrite_file true and dry_run false, a file whose            *)
(* destination already exists is operated on (the destination then holds   *)
(* the source's content) and post_process is called exactly once for it,   *)
(* with the destination file path, after the operation.                    *)
C3_OverwritePlacesAndPostProcessesOnce ==
    /\ [][(/\ pc = "place" /\ Exists(fs, new_file)
           /\ cfg.overwrite_file /\ cfg.dry_run = FALSE)
            => (pc' = "post" /\ fs'[new_file] = fs[files[i]])]_vars
    /\ [](\A k \in 1..Len(files) :
            (/\ cfg.overwrite_file /\ cfg.dry_run = FALSE
             /\ cfg.hooks.post_process = "fn"
             /\ Reported(k, "overwrite")
             /\ (i > k \/ pc = "done"))
            => /\ Cardinality(EventsOf("post_process", k)) = 1
               /\ \A n \in EventsOf("post_process", k) :
                     \E m \in EventsOf("op", k) :
                        m < n /\ log[n].arg = log[m].dst)

(* C4: when skip returns true for a file, rename and post_process are not  *)
(* called for it, the filesystem is not changed for it, and the run goes   *)
(* on with the next file of the list.                                      *)
C4_SkippedFileIsLeftAlone ==
    /\ [][(/\ pc = "skip" /\ Len(log') > Len(log)
           /\ log'[Len(log) + 1].ev = "skip" /\ log'[Len(log) + 1].ret)
            => (/\ fs' = fs
                /\ i' = i + 1
                /\ pc' = IF i < Len(files) THEN "skip" ELSE "finish"
                /\ err' = "none")]_vars
    /\ [](\A n \in 1..Len(log) :
            (log[n].ev = "skip" /\ log[n].ret)
            => /\ EventsOf("rename", log[n].i) = {}
               /\ EventsOf("post_process", log[n].i) = {}
               /\ EventsOf("op", log[n].i) = {}
               /\ (i > log[n].i))

C4_Witness ==
    /\ \E n \in EventsOf("skip", 1) : log[n].ret
    /\ EventsOf("rename", 2) # {}
    /\ pc = "done"

(* the name the subdir function returned, "" when it was not called *)
SubdirReturned ==
    IF \E n \in 1..Len(log) : log[n].ev = "subdir"
    THEN log[CHOOSE n \in 1..Len(log) : log[n].ev = "subdir"].ret
    ELSE <<>>

(* the name the rename function returned for the k-th file, "" when it was *)
(* not called                                                              *)
RenameReturned(k) ==
    IF EventsOf("rename", k) # {}
    THEN log[CHOOSE n \in EventsOf("rename", k) : TRUE].ret
    ELSE <<>>

C6_DryRunChangesNothing == cfg.dry_run => fs = fs0

C6_Witness ==
    /\ cfg.dry_run /\ pc = "done"
    /\ SubdirReturned # <<>> /\ ~Exists(fs0, SubDir)
    /\ Reported(1, "place") /\ Reported(2, "place")

(* C7: in a run with dry_run true the post_process function is not         *)
(* executed for any file.                                                  *)
C7_DryRunNoPostProcess ==
    cfg.dry_run => \A n \in 1..Len(log) : log[n].ev # "post_process"

(* C8: a configuration whose version differs from the major version of     *)
(* the script makes send_to raise IncompatibleCfgVersion as its first      *)
(* action, whatever the file list is; no prompt, no hook call and no       *)
(* filesystem change comes before.                                         *)
C8_VersionMismatchFailsFirst ==
    cfg.version # 0 =>
        /\ pc = "start" \/ (pc = "error" /\ err = "IncompatibleCfgVersion")
        /\ log = <<>>
        /\ fs = fs0

C8_Witness ==
    /\ cfg.version # 0 /\ pc = "error" /\ err = "IncompatibleCfgVersion"
    /\ files = <<>>

(* C9: with a matching version and an empty file list send_to exits with   *)
(* the "no files" error before the date or description prompt, before any  *)
(* hook call and before any filesystem change.                             *)
C9_NoFilesFailsBeforePrompts ==
    (cfg.version = 0 /\ Len(files) = 0) =>
        /\ pc \in {"start", "collect"} \/ (pc = "error" /\ err = "SystemExit")
        /\ log = <<>>
        /\ fs = fs0

C9_Witness ==
    /\ cfg.version = 0 /\ Len(files) = 0 /\ cfg.ask_for_date
    /\ pc = "error" /\ err = "SystemExit"

(* C10: with ask_for_date true, a prompt response that does not parse      *)
(* against date_fmt, is not blank and is not an integer in [-7, -1] makes  *)
(* date resolution fail with InvalidDateInput.                             *)
C10_BadDateRaisesInvalidDateInput ==
    \A n \in 1..Len(log) :
        (/\ log[n].ev = "prompt_date"
         /\ ~strptime_ok(log[n].response, cfg.date_fmt)
         /\ log[n].response # <<>>
         /\ ~(/\ PyInt(log[n].response).ok
              /\ PyInt(log[n].response).val \in (-7)..(-1)))
        => (pc = "error" /\ err = "InvalidDateInput")

(* the date of the run and of the seven days before it, as the two formats *)
(* print them                                                              *)
ExpectedDate(date_fmt, daysAgo) ==
    LET md == CASE daysAgo = 0 -> <<"0", "3", "-", "0", "3">>
                [] daysAgo = 1 -> <<"0", "3", "-", "0", "2">>
                [] daysAgo = 2 -> <<"0", "3", "-", "0", "1">>
                [] daysAgo = 3 -> <<"0", "2", "-", "2", "8">>
                [] daysAgo = 4 -> <<"0", "2", "-", "2", "7">>
                [] daysAgo = 5 -> <<"0", "2", "-", "2", "6">>
                [] daysAgo = 6 -> <<"0", "2", "-", "2", "5">>
                [] daysAgo = 7 -> <<"0", "2", "-", "2", "4">>
    IN  IF date_fmt = default_date_fmt
        THEN <<"2", "0", "2", "3", "-">> \o md
        ELSE SubSeq(md, 3, 5)

(* the response typed at the date prompt *)
DateTyped == log[1].response

DateResolved ==
    /\ pc \notin {"start", "collect", "date"}
    /\ err \notin {"IncompatibleCfgVersion", "SystemExit"}

(* C11: date resolution returns today's date when ask_for_date is false    *)
(* or the response is blank, today minus N days when the response is the   *)
(* integer -N with N in 1..7 and for no other integer, and the typed       *)
(* string unchanged when the response parses against date_fmt; a parsing   *)
(* response is returned as typed even when it also reads as a day shift.   *)
C11_DateResolution ==
    DateResolved =>
        IF ~cfg.ask_for_date
        THEN info.date = ExpectedDate(cfg.date_fmt, 0)
        ELSE IF strptime_ok(DateTyped, cfg.date_fmt)
        THEN info.date = DateTyped
        ELSE IF DateTyped = <<>>
        THEN info.date = ExpectedDate(cfg.date_fmt, 0)
        ELSE IF PyInt(DateTyped).ok /\ PyInt(DateTyped).val \in (-7)..(-1)
        THEN info.date = ExpectedDate(cfg.date_fmt, 0 - PyInt(DateTyped).val)
        ELSE pc = "error" /\ err \in {"InvalidDateInput", "ValueError"}
                          /\ info.date = <<>>

C11_Witness ==
    /\ pc = "desc" /\ cfg.ask_for_date /\ cfg.date_fmt = day_only_fmt
    /\ DateTyped = <<"-", "3">>
    /\ info.date = <<"-", "3">>
    /\ info.date # ExpectedDate(cfg.date_fmt, 3)

(* C12: a hook the caller did not supply behaves as its neutral default    *)
(* and the run never ends in an error because of the absence (the user's   *)
(* functions themselves do not raise, so AttributeError and TypeError can  *)
(* only come from calling a hook that is not there); a run with no hook    *)
(* set, COPY and one file without conflict ends with the file copied to    *)
(* dst_path under its own name.                                            *)
C12_AbsentHooksAreNotErrors ==
    /\ err \notin {"AttributeError", "TypeError"}
    /\ (/\ cfg.hooks = Hooks("unset", "unset", "unset", "unset")
        /\ cfg.version = 0 /\ cfg.operation = "COPY" /\ cfg.dry_run = FALSE
        /\ files = <<InA>> /\ ~Exists(fs0, OutA)
        /\ DateResolved /\ pc \notin {"desc", "subdir"}
        /\ err \notin {"InvalidDateInput", "ValueError"})
       => (pc \in {"skip", "rename", "place", "post", "finish", "done"}
           /\ (pc \in {"finish", "done"} => fs[OutA] = fs0[InA]))

(* the positions of the log entries of kind ev *)
Events(ev) == {n \in 1..Len(log) : log[n].ev = ev}

(* the run is past the date and description prompts and the subdirectory   *)
(* step                                                                    *)
InLoop ==
    \/ pc \in {"skip", "rename", "place", "post", "finish", "done"}
    \/ pc = "error" /\ i >= 1

(* what the user typed at the description prompt, "" when it was not shown *)
DescTyped ==
    IF Events("prompt_desc") # {}
    THEN log[CHOOSE n \in Events("prompt_desc") : TRUE].response
    ELSE <<>>

(* C13: in a run that gets past date and description resolution the        *)
(* subdir function is called exactly once, after the date and the          *)
(* description are stored in info and before skip, rename, post_process or *)
(* any file operation happens for any file; it is not called again in the  *)
(* per-file loop.                                                          *)
C13_SubdirCalledOnceBeforeLoop ==
    cfg.hooks.subdir = "fn" =>
        /\ Cardinality(Events("subdir")) =
              (IF InLoop \/ (pc = "error" /\ err \in {"FileNotFoundError"})
               THEN 1 ELSE 0)
        /\ \A n \in Events("subdir") :
              /\ log[n].info.date = info.date /\ info.date # <<>>
              /\ log[n].info.desc = DescTyped
              /\ \A m \in Events("prompt_date") \cup Events("prompt_desc") : m < n
              /\ \A m \in 1..Len(log) :
                    log[m].ev \in {"skip", "rename", "post_process", "op",
                                   "report", "mkdir"} => n < m

C13_Witness ==
    /\ cfg.hooks.subdir = "fn" /\ pc = "done" /\ Len(files) = 2
    /\ cfg.ask_for_date /\ cfg.ask_for_desc
    /\ Cardinality(Events("subdir")) = 1
    /\ Cardinality(Events("skip")) = 2
    /\ Cardinality(Events("post_process")) = 2

PerFileEvents == {"skip", "rename", "report", "op", "post_process"}

(* C14: the files are processed in the order given and each one completely *)
(* before the next begins: for a file skip is called once, then rename at  *)
(* most once, then the operation, then post_process at most once, all      *)
(* before anything happens for the following file; no file is processed    *)
(* twice.                                                                  *)
C14_FilesInOrderOneAtATime ==
    /\ \A m, n \in 1..Len(log) :
          (m < n /\ log[m].ev \in PerFileEvents /\ log[n].ev \in PerFileEvents)
          => log[m].i <= log[n].i
    /\ \A n \in 1..Len(log) :
          log[n].ev \in PerFileEvents => log[n].i \in 1..Len(files) /\ log[n].i <= i
    /\ \A k \in 1..Len(files) :
          /\ \A ev \in PerFileEvents : Cardinality(EventsOf(ev, k)) <= 1
          /\ (cfg.hooks.skip = "fn" /\ (k < i \/ (k = i /\ pc \notin {"skip", "error"})))
                => Cardinality(EventsOf("skip", k)) = 1
          /\ \A a \in EventsOf("skip", k) :
                /\ log[a].info.file_path = files[k]
                /\ \A b \in EventsOf("rename", k) \cup EventsOf("report", k) : a < b
          /\ \A a \in EventsOf("rename", k) :
                /\ log[a].info.file_path = files[k]
                /\ \A b \in EventsOf("report", k) : a < b
          /\ \A a \in EventsOf("report", k) :
                \A b \in EventsOf("op", k) \cup EventsOf("post_process", k) : a < b
          /\ \A a \in EventsOf("op", k) :
                /\ log[a].src = files[k]
                /\ \A b \in EventsOf("post_process", k) : a < b

C14_Witness ==
    /\ pc = "done" /\ Len(files) = 2 /\ files[1] # files[2]
    /\ cfg.dry_run = FALSE
    /\ \A k \in 1..2 : \A ev \in {"skip", "rename", "op", "post_process"} :
          EventsOf(ev, k) # {}

AllHooksSet == cfg.hooks = Hooks("fn", "fn", "fn", "fn")

(* C15: a run that has entered the per-file loop reaches Done: whatever    *)
(* the file list (the same source named twice, files resolving to the same *)
(* destination), the operation and the flags, no condition met for a file  *)
(* ends the run before the list is exhausted.  Stated for runs with every  *)
(* hook set, so that a missing hook is not what ends the run.              *)
C15_NoFileAbortsTheRun == (AllHooksSet /\ InLoop) => pc # "error"

(* C16: with dry_run false, for a file that is placed (not skipped, and    *)
(* no conflict or overwrite_file true) MOVE leaves no file at the source   *)
(* path and the source's content at the destination, COPY leaves the       *)
(* source as it was and a copy of its content at the destination; in a     *)
(* COPY run no source file is ever removed.                                *)
C16_MoveAndCopyEffects ==
    /\ [][(/\ pc = "place" /\ cfg.dry_run = FALSE
           /\ (~Exists(fs, new_file) \/ cfg.overwrite_file))
            => (/\ pc' = "post"
                /\ fs'[new_file] = fs[files[i]]
                /\ IF cfg.operation = "MOVE"
                   THEN ~Exists(fs', files[i])
                   ELSE fs'[files[i]] = fs[files[i]])]_vars
    /\ [](cfg.operation = "COPY" =>
             \A k \in 1..Len(files) : Exists(fs, files[k]))

(* the destination the k-th file resolves to, from what the user's         *)
(* functions returned in this run                                          *)
ResolvedDest(k) ==
    LET file == files[k]
        name == IF RenameReturned(k) = <<>>
                THEN <<file[Len(file)]>> ELSE RenameReturned(k)
        dir == IF SubdirReturned = <<>> THEN cfg.dst_path
               ELSE cfg.dst_path \o SubdirReturned
    IN  dir \o name

(* what a dry run of the same configuration, file list, hook results and   *)
(* initial filesystem reports for the k-th file: it tests the destination  *)
(* against the filesystem it was started on, which it never changes        *)
DryRunOutcome(k) ==
    IF \E n \in EventsOf("skip", k) : log[n].ret THEN "skipped"
    ELSE IF Exists(fs0, ResolvedDest(k))
    THEN (IF cfg.overwrite_file THEN "overwrite" ELSE "conflict_skip")
    ELSE "place"

(* the reports of a dry run are the ones DryRunOutcome computes *)
DryRunReportsAsComputed ==
    cfg.dry_run =>
        \A n \in Events("report") : log[n].outcome = DryRunOutcome(log[n].i)

(* C17: the outcomes a dry run reports file by file (skipped, placed,      *)
(* placed with overwrite, conflict-skipped) are the ones the run with      *)
(* dry_run false reports for the same configuration, file list, hook       *)
(* results and initial filesystem.                                         *)
C17_DryRunReportsAsIfPerformed ==
    cfg.dry_run = FALSE =>
        \A n \in Events("report") : log[n].outcome = DryRunOutcome(log[n].i)

(* the calls of the per-file loop that are given info *)
LoopCalls == Events("skip") \cup Events("rename")

(* C18: at every skip and rename call info.file_path is the file being     *)
(* processed, and info.date, info.desc and info.dst_path are the same at   *)
(* every hook call of the per-file loop: the date and description resolved *)
(* at the start and the destination path fixed after the subdirectory      *)
(* step; send_to never writes to cfg.                                      *)
C18_HooksSeeConsistentInfo ==
    /\ [](\A n \in LoopCalls :
            /\ log[n].info.file_path = files[log[n].i]
            /\ log[n].info.date = info.date
            /\ log[n].info.desc = DescTyped
            /\ log[n].info.dst_path =
                  (IF SubdirReturned = <<>> THEN cfg.dst_path
                   ELSE cfg.dst_path \o SubdirReturned)
            /\ \A m \in Events("subdir") :
                  /\ log[m].info.date = log[n].info.date
                  /\ log[m].info.desc = log[n].info.desc)
    /\ [][cfg' = cfg]_vars

C18_Witness ==
    /\ pc = "done" /\ Len(files) = 2 /\ files[1] # files[2]
    /\ cfg.ask_for_date /\ cfg.ask_for_desc
    /\ SubdirReturned # <<>>
    /\ Cardinality(Events("rename")) = 2
    /\ info.date # ExpectedDate(cfg.date_fmt, 0)

(* C19: a run that ends with InvalidDateInput does so before the           *)
(* description prompt, before subdir or any other hook is called, before   *)
(* any directory is created and before any file is moved or copied: the    *)
(* filesystem is the initial one.                                          *)
C19_InvalidDateFailsBeforeEverything ==
    err = "InvalidDateInput" =>
        /\ pc = "error"
        /\ Len(log) = 1 /\ log[1].ev = "prompt_date"
        /\ info.desc = <<>>
        /\ fs = fs0

C19_Witness ==
    /\ pc = "error" /\ err = "InvalidDateInput"
    /\ cfg.ask_for_desc /\ cfg.hooks.subdir = "fn" /\ cfg.dry_run = FALSE
    /\ log[1].response = <<"-", "8">>

(* the per-file loop is about to start *)
LoopStart == pc = "skip" /\ i = 1

(* C20: when the subdir function returns a name that is not empty the      *)
(* effective destination path is dst_path\name and, with dry_run false,    *)
(* that directory exists when the per-file loop starts whether or not it   *)
(* existed before (a directory that is already there is not an error and   *)
(* is left as it is); when the name is empty the effective destination     *)
(* path is dst_path and no directory is created.                           *)
C20_SubdirectoryResolution ==
    (LoopStart /\ cfg.hooks.subdir = "fn") =>
        IF SubdirReturned # <<>>
        THEN /\ info.dst_path = cfg.dst_path \o SubdirReturned
             /\ cfg.dry_run = FALSE => IsDir(fs, info.dst_path)
             /\ \A p \in AllPaths \ {info.dst_path} : fs[p] = fs0[p]
             /\ Exists(fs0, info.dst_path) => fs = fs0
        ELSE info.dst_path = cfg.dst_path /\ fs = fs0

====
